---- MODULE Spec2Model ----
(***************************************************************************)
(* Tuya climate adapter (homeassistant/components/tuya/climate.py).        *)
(*                                                                         *)
(* The adapter binds the data points of a Tuya device to the properties of *)
(* a climate entity when it is constructed, decodes the live device status *)
(* on every property read and encodes a command batch on every write.      *)
(* The state is: the process-wide translation table TUYA_HVAC_TO_HA, the   *)
(* device objects of the SDK (function, status_range, status), the         *)
(* adapters (their bindings) and a record of the last operation with what  *)
(* it returned, raised and submitted.                                      *)
(*                                                                         *)
(* Scaled (human) values are fixed-point numbers counted in units of       *)
(* 1/ScaledDenom, so 22.3 degrees is 223.                                  *)
(***************************************************************************)
EXTENDS Integers, Sequences, FiniteSets, TLC

VARIABLES TUYA_HVAC_TO_HA, instruction_type, device, entity, last

vars == <<TUYA_HVAC_TO_HA, instruction_type, device, entity, last>>

----------------------------------------------------------------------------
(* Vocabulary of the host framework (homeassistant.components.climate).    *)

HVAC_OFF == "off"
HVAC_HEAT == "heat"
HVAC_COOL == "cool"
HVAC_HEAT_COOL == "heat_cool"
HVAC_AUTO == "auto"
HVAC_DRY == "dry"
HVAC_FAN_ONLY == "fan_only"

HVACModes ==
  {HVAC_OFF, HVAC_HEAT, HVAC_COOL, HVAC_HEAT_COOL, HVAC_AUTO, HVAC_DRY, HVAC_FAN_ONLY}

PRESET_ECO == "eco"
PRESET_NONE == "none"

SWING_ON == "on"
SWING_OFF == "off"
SWING_BOTH == "both"
SWING_VERTICAL == "vertical"
SWING_HORIZONTAL == "horizontal"

SwingModes == {SWING_ON, SWING_OFF, SWING_BOTH, SWING_VERTICAL, SWING_HORIZONTAL}

TEMP_CELSIUS == "C"
TEMP_FAHRENHEIT == "F"

\* Python's None where a string is expected (a property read, a unit).
NoneStr == "<None>"

\* The data point codes the adapter names.
DP_SWITCH == "switch"
DP_MODE == "mode"
DP_ECO == "eco"
DP_TEMP_CURRENT == "temp_current"
DP_TEMP_CURRENT_F == "temp_current_f"
DP_UPPER_TEMP == "upper_temp"
DP_UPPER_TEMP_F == "upper_temp_f"
DP_TEMP_SET == "temp_set"
DP_TEMP_SET_F == "temp_set_f"
DP_C_F == "c_f"
DP_TEMP_UNIT_CONVERT == "temp_unit_convert"
DP_HUMIDITY_SET == "humidity_set"
DP_HUMIDITY_CURRENT == "humidity_current"
DP_FAN_SPEED_ENUM == "fan_speed_enum"
DP_WINDSPEED == "windspeed"
DP_SHAKE == "shake"
DP_SWING == "swing"
DP_SWITCH_HORIZONTAL == "switch_horizontal"
DP_SWITCH_VERTICAL == "switch_vertical"

DPCodes ==
  {DP_SWITCH, DP_MODE, DP_ECO, DP_TEMP_CURRENT, DP_TEMP_CURRENT_F, DP_UPPER_TEMP,
   DP_UPPER_TEMP_F, DP_TEMP_SET, DP_TEMP_SET_F, DP_C_F, DP_TEMP_UNIT_CONVERT,
   DP_HUMIDITY_SET, DP_HUMIDITY_CURRENT, DP_FAN_SPEED_ENUM, DP_WINDSPEED,
   DP_SHAKE, DP_SWING, DP_SWITCH_HORIZONTAL, DP_SWITCH_VERTICAL}

INSTR_STANDARD == "Standard"
INSTR_DP == "DP Instructions"

InstructionTypes == {INSTR_STANDARD, INSTR_DP}

\* The data point identifier of `dpcode` in the "DP Instructions" set.
DpInstructionId ==
  [c \in DPCodes |->
     CASE c = DP_SWITCH -> "dp:switch"
       [] c = DP_MODE -> "dp:mode"
       [] c = DP_ECO -> "dp:eco"
       [] c = DP_TEMP_CURRENT -> "dp:temp_current"
       [] c = DP_TEMP_CURRENT_F -> "dp:temp_current_f"
       [] c = DP_UPPER_TEMP -> "dp:upper_temp"
       [] c = DP_UPPER_TEMP_F -> "dp:upper_temp_f"
       [] c = DP_TEMP_SET -> "dp:temp_set"
       [] c = DP_TEMP_SET_F -> "dp:temp_set_f"
       [] c = DP_C_F -> "dp:c_f"
       [] c = DP_TEMP_UNIT_CONVERT -> "dp:temp_unit_convert"
       [] c = DP_HUMIDITY_SET -> "dp:humidity_set"
       [] c = DP_HUMIDITY_CURRENT -> "dp:humidity_current"
       [] c = DP_FAN_SPEED_ENUM -> "dp:fan_speed_enum"
       [] c = DP_WINDSPEED -> "dp:windspeed"
       [] c = DP_SHAKE -> "dp:shake"
       [] c = DP_SWING -> "dp:swing"
       [] c = DP_SWITCH_HORIZONTAL -> "dp:switch_horizontal"
       [] c = DP_SWITCH_VERTICAL -> "dp:switch_vertical"]

\* TuyaEntity._get_right_dpcode: the identifier under which the entity's
\* instruction type names a data point.  "Standard" (the default) names it by
\* its DPCode; "DP Instructions" by its identifier in that instruction set.
get_right_dpcode(itype, dpcode) ==
  IF itype = INSTR_DP THEN DpInstructionId[dpcode] ELSE dpcode

----------------------------------------------------------------------------
(* TUYA_HVAC_TO_HA, climate.py:33-42, and the entries async_added_to_hass  *)
(* writes into it.                                                         *)

InitialTable ==
  ("auto" :> HVAC_HEAT_COOL) @@ ("cold" :> HVAC_COOL) @@ ("freeze" :> HVAC_COOL) @@
  ("heat" :> HVAC_HEAT) @@ ("hot" :> HVAC_HEAT) @@ ("manual" :> HVAC_HEAT_COOL) @@
  ("wet" :> HVAC_DRY) @@ ("wind" :> HVAC_FAN_ONLY)

\* dict[key] = value
DictSet(dict, key, value) == (key :> value) @@ dict

\* CLIMATE_DESCRIPTIONS: category -> switch_only_hvac_mode.
CLIMATE_DESCRIPTIONS ==
  ("kt" :> HVAC_COOL) @@ ("qn" :> HVAC_HEAT) @@ ("rs" :> HVAC_HEAT) @@
  ("wk" :> HVAC_HEAT_COOL) @@ ("wkf" :> HVAC_HEAT)

switch_only_hvac_mode(category) == CLIMATE_DESCRIPTIONS[category]

----------------------------------------------------------------------------
(* Data point declarations and the resolver (TuyaEntity.find_dpcode).      *)

DPTYPE_BOOLEAN == "Boolean"
DPTYPE_ENUM == "Enum"
DPTYPE_INTEGER == "Integer"
DPTYPE_ANY == ""

\* A declaration in device.function or device.status_range.
BooleanDecl ==
  [type |-> DPTYPE_BOOLEAN, range |-> <<>>, min |-> 0, max |-> 0, scale |-> 0, step |-> 1]
EnumDecl(range) ==
  [type |-> DPTYPE_ENUM, range |-> range, min |-> 0, max |-> 0, scale |-> 0, step |-> 1]
IntegerDecl(min, max, scale, step) ==
  [type |-> DPTYPE_INTEGER, range |-> <<>>, min |-> min, max |-> max, scale |-> scale,
   step |-> step]

\* What find_dpcode returns: None, the dpcode, an EnumTypeData or an IntegerTypeData.
NoneType ==
  [found |-> FALSE, dpcode |-> "", type |-> DPTYPE_ANY, range |-> <<>>, min |-> 0,
   max |-> 0, scale |-> 0, step |-> 1]
TypeData(dpcode, decl) ==
  [found |-> TRUE, dpcode |-> dpcode, type |-> decl.type, range |-> decl.range,
   min |-> decl.min, max |-> decl.max, scale |-> decl.scale, step |-> decl.step]
PlainDpcode(dpcode) ==
  [found |-> TRUE, dpcode |-> dpcode, type |-> DPTYPE_ANY, range |-> <<>>, min |-> 0,
   max |-> 0, scale |-> 0, step |-> 1]

\* The places a data point can be declared in, in the order they are searched.
SearchOrder(prefer_function, dptype) ==
  (IF prefer_function THEN <<"function", "status_range">>
   ELSE <<"status_range", "function">>)
  \o (IF dptype = DPTYPE_ANY THEN <<"status">> ELSE <<>>)

DeclaredIn(dev, key, dpcode) ==
  CASE key = "function" -> dpcode \in DOMAIN dev.function
    [] key = "status_range" -> dpcode \in DOMAIN dev.status_range
    [] OTHER -> dpcode \in DOMAIN dev.status

Matches(dev, key, dpcode, dptype) ==
  /\ DeclaredIn(dev, key, dpcode)
  /\ \/ dptype = DPTYPE_ANY
     \/ key = "function" /\ dev.function[dpcode].type = dptype
     \/ key = "status_range" /\ dev.status_range[dpcode].type = dptype

\* find_dpcode(dpcodes, prefer_function=..., dptype=...): the first candidate,
\* in the order given, with a declaration of the required type; of that
\* candidate the first declaration in the search order.
find_dpcode(dev, dpcodes, prefer_function, dptype) ==
  LET order == SearchOrder(prefer_function, dptype)
      hit(i) == \E k \in 1..Len(order) : Matches(dev, order[k], dpcodes[i], dptype)
      hits == {i \in 1..Len(dpcodes) : hit(i)}
  IN IF hits = {} THEN NoneType
     ELSE LET i == CHOOSE x \in hits : \A y \in hits : x <= y
              k == CHOOSE x \in 1..Len(order) :
                     /\ Matches(dev, order[x], dpcodes[i], dptype)
                     /\ \A y \in 1..(x - 1) : ~Matches(dev, order[y], dpcodes[i], dptype)
          IN IF dptype = DPTYPE_ANY THEN PlainDpcode(dpcodes[i])
             ELSE IF order[k] = "function" THEN TypeData(dpcodes[i], dev.function[dpcodes[i]])
             ELSE TypeData(dpcodes[i], dev.status_range[dpcodes[i]])

----------------------------------------------------------------------------
(* The unit/scale converter (IntegerTypeData).                             *)

\* The largest scale (power-of-ten exponent) a declaration of the model uses;
\* scaled values are counted in units of 1/10^MaxScale.
MaxScale == 1

RECURSIVE Pow10(_)
Pow10(n) == IF n = 0 THEN 1 ELSE 10 * Pow10(n - 1)

ScaledDenom == Pow10(MaxScale)

\* IntegerTypeData.scale_value: raw / 10^scale.
scale_value(t, raw) == (raw * ScaledDenom) \div Pow10(t.scale)

\* IntegerTypeData.scale_value_back: scaled * 10^scale, as the nearest raw
\* integer that is a multiple of step (a tie goes up).
scale_value_back(t, scaled) ==
  LET num == scaled * Pow10(t.scale)
  IN t.step * ((2 * num + t.step * ScaledDenom) \div (2 * t.step * ScaledDenom))

min_scaled(t) == scale_value(t, t.min)
max_scaled(t) == scale_value(t, t.max)
step_scaled(t) == scale_value(t, t.step)

----------------------------------------------------------------------------
(* The adapter: TuyaClimateEntity.__init__, climate.py:134-308.            *)

FEATURE_TARGET_TEMPERATURE == "TARGET_TEMPERATURE"
FEATURE_TARGET_HUMIDITY == "TARGET_HUMIDITY"
FEATURE_FAN_MODE == "FAN_MODE"
FEATURE_PRESET_MODE == "PRESET_MODE"
FEATURE_SWING_MODE == "SWING_MODE"

\* The unit strings a device reports in c_f / temp_unit_convert, and str.lower.
UnitStrings == {"c", "C", "f", "F"}
Lower == [s \in UnitStrings |-> IF s \in {"f", "F"} THEN "f" ELSE "c"]

\* climate.py:150-173
prefered_temperature_unit(dev, itype) ==
  LET R(c) == get_right_dpcode(itype, c)
      both(a, b) == R(a) \in DOMAIN dev.status /\ R(b) \in DOMAIN dev.status
  IN IF both(DP_TEMP_CURRENT, DP_TEMP_CURRENT_F) \/ both(DP_TEMP_SET, DP_TEMP_SET_F)
     THEN IF \E c \in {R(DP_C_F), R(DP_TEMP_UNIT_CONVERT)} :
               /\ c \in DOMAIN dev.status
               /\ dev.status[c].t = "str"
               /\ dev.status[c].s \in UnitStrings
               /\ Lower[dev.status[c].s] = "f"
          THEN TEMP_FAHRENHEIT
          ELSE TEMP_CELSIUS
     ELSE NoneStr

\* climate.py:193-201 and 214-220: which of the two resolved types is bound.
UseFahrenheit(prefered, celsius_type, farhenheit_type) ==
  /\ farhenheit_type.found
  /\ \/ prefered = TEMP_FAHRENHEIT
     \/ prefered = TEMP_CELSIUS /\ ~celsius_type.found

TemperatureBinding(prefered, celsius_type, farhenheit_type) ==
  IF UseFahrenheit(prefered, celsius_type, farhenheit_type) THEN farhenheit_type
  ELSE IF celsius_type.found THEN celsius_type
  ELSE NoneType

\* climate.py:178-201
ResolveCurrentTemperature(dev, itype) ==
  LET R(c) == get_right_dpcode(itype, c)
      celsius_type ==
        find_dpcode(dev, <<R(DP_TEMP_CURRENT), R(DP_UPPER_TEMP)>>, FALSE, DPTYPE_INTEGER)
      farhenheit_type ==
        find_dpcode(dev, <<R(DP_TEMP_CURRENT_F), R(DP_UPPER_TEMP_F)>>, FALSE, DPTYPE_INTEGER)
  IN TemperatureBinding(prefered_temperature_unit(dev, itype), celsius_type, farhenheit_type)

\* climate.py:176, 193-201
ResolveTemperatureUnit(dev, itype) ==
  LET R(c) == get_right_dpcode(itype, c)
      celsius_type ==
        find_dpcode(dev, <<R(DP_TEMP_CURRENT), R(DP_UPPER_TEMP)>>, FALSE, DPTYPE_INTEGER)
      farhenheit_type ==
        find_dpcode(dev, <<R(DP_TEMP_CURRENT_F), R(DP_UPPER_TEMP_F)>>, FALSE, DPTYPE_INTEGER)
  IN IF UseFahrenheit(prefered_temperature_unit(dev, itype), celsius_type, farhenheit_type)
     THEN TEMP_FAHRENHEIT
     ELSE TEMP_CELSIUS

\* climate.py:203-220
ResolveSetTemperature(dev, itype) ==
  LET R(c) == get_right_dpcode(itype, c)
      celsius_type == find_dpcode(dev, <<R(DP_TEMP_SET)>>, TRUE, DPTYPE_INTEGER)
      farhenheit_type == find_dpcode(dev, <<R(DP_TEMP_SET_F)>>, TRUE, DPTYPE_INTEGER)
  IN TemperatureBinding(prefered_temperature_unit(dev, itype), celsius_type, farhenheit_type)

\* climate.py:241-247: the loop over enum_type.range, from index i on.
RECURSIVE HvacModeLoop(_, _, _, _)
HvacModeLoop(table, range, i, acc) ==
  IF i > Len(range) THEN acc
  ELSE LET tuya_mode == range[i]
       IN IF tuya_mode \in DOMAIN table
          THEN HvacModeLoop(table, range, i + 1,
                 [acc EXCEPT !.hvac_to_tuya = DictSet(@, table[tuya_mode], tuya_mode),
                             !.hvac_modes = Append(@, table[tuya_mode])])
          ELSE HvacModeLoop(table, range, i + 1,
                 [acc EXCEPT !.unknown_hvac_modes = Append(@, tuya_mode)])

\* ResolveHvacModes that folds the unrecognized values into the presets but
\* does not add the category's fallback mode.
ResolveHvacModes_without_fallback(table, dev, category, itype) ==
  LET R(c) == get_right_dpcode(itype, c)
      enum_type == find_dpcode(dev, <<R(DP_MODE)>>, TRUE, DPTYPE_ENUM)
      none == [hvac_modes |-> <<>>, hvac_to_tuya |-> <<>>, unknown_hvac_modes |-> <<>>,
               preset_modes |-> <<>>, preset_feature |-> FALSE]
  IN IF enum_type.found
     THEN LET looped == HvacModeLoop(table, enum_type.range, 1,
                          [none EXCEPT !.hvac_modes = <<HVAC_OFF>>])
          IN IF looped.unknown_hvac_modes # <<>>
             THEN [looped EXCEPT
                     !.preset_modes = looped.unknown_hvac_modes,
                     !.preset_feature = TRUE]
             ELSE looped
     ELSE IF find_dpcode(dev, <<R(DP_SWITCH)>>, TRUE, DPTYPE_ANY).found
     THEN [none EXCEPT !.hvac_modes = <<HVAC_OFF, switch_only_hvac_mode(category)>>]
     ELSE none

\* climate.py:231-257
ResolveHvacModes(table, dev, category, itype) ==
  LET R(c) == get_right_dpcode(itype, c)
      enum_type == find_dpcode(dev, <<R(DP_MODE)>>, TRUE, DPTYPE_ENUM)
      none == [hvac_modes |-> <<>>, hvac_to_tuya |-> <<>>, unknown_hvac_modes |-> <<>>,
               preset_modes |-> <<>>, preset_feature |-> FALSE]
  IN IF enum_type.found
     THEN LET looped == HvacModeLoop(table, enum_type.range, 1,
                          [none EXCEPT !.hvac_modes = <<HVAC_OFF>>])
          IN IF looped.unknown_hvac_modes # <<>>
             THEN [looped EXCEPT
                     !.hvac_modes = Append(@, switch_only_hvac_mode(category)),
                     !.preset_modes = looped.unknown_hvac_modes,
                     !.preset_feature = TRUE]
             ELSE looped
     ELSE IF find_dpcode(dev, <<R(DP_SWITCH)>>, TRUE, DPTYPE_ANY).found
     THEN [none EXCEPT !.hvac_modes = <<HVAC_OFF, switch_only_hvac_mode(category)>>]
     ELSE none

\* climate.py:289-308 (the last three lookups name the DPCode itself).
ResolveSwingModes(dev, itype) ==
  LET R(c) == get_right_dpcode(itype, c)
  IN IF find_dpcode(dev, <<R(DP_SHAKE), R(DP_SWING), R(DP_SWITCH_HORIZONTAL),
                           R(DP_SWITCH_VERTICAL)>>, TRUE, DPTYPE_ANY).found
     THEN <<SWING_OFF>>
          \o (IF find_dpcode(dev, <<DP_SHAKE, DP_SWING>>, TRUE, DPTYPE_ANY).found
              THEN <<SWING_ON>> ELSE <<>>)
          \o (IF find_dpcode(dev, <<DP_SWITCH_HORIZONTAL>>, TRUE, DPTYPE_ANY).found
              THEN <<SWING_HORIZONTAL>> ELSE <<>>)
          \o (IF find_dpcode(dev, <<DP_SWITCH_VERTICAL>>, TRUE, DPTYPE_ANY).found
              THEN <<SWING_VERTICAL>> ELSE <<>>)
     ELSE <<>>

\* An adapter that is not constructed yet.
NoEntity ==
  [constructed |-> FALSE, added |-> FALSE, category |-> "",
   temperature_unit |-> TEMP_CELSIUS, current_temperature |-> NoneType,
   set_temperature |-> NoneType, supported_features |-> {}, hvac_modes |-> <<>>,
   hvac_to_tuya |-> <<>>, preset_modes |-> <<>>, set_humidity |-> NoneType,
   current_humidity |-> NoneType, fan_modes |-> <<>>, swing_modes |-> <<>>]

\* TuyaClimateEntity(device, device_manager, description, instruction_type)
NewEntity(table, dev, itype) ==
  LET R(c) == get_right_dpcode(itype, c)
      set_temperature == ResolveSetTemperature(dev, itype)
      hvac == ResolveHvacModes(table, dev, dev.category, itype)
      set_humidity == find_dpcode(dev, <<R(DP_HUMIDITY_SET)>>, TRUE, DPTYPE_INTEGER)
      fan_type == find_dpcode(dev, <<R(DP_FAN_SPEED_ENUM), R(DP_WINDSPEED)>>, TRUE,
                              DPTYPE_ENUM)
      swing_modes == ResolveSwingModes(dev, itype)
  IN [constructed |-> TRUE,
      added |-> FALSE,
      category |-> dev.category,
      temperature_unit |-> ResolveTemperatureUnit(dev, itype),
      current_temperature |-> ResolveCurrentTemperature(dev, itype),
      set_temperature |-> set_temperature,
      supported_features |->
        (IF set_temperature.found
         THEN {FEATURE_TARGET_TEMPERATURE, FEATURE_PRESET_MODE} ELSE {})
        \cup (IF hvac.preset_feature THEN {FEATURE_PRESET_MODE} ELSE {})
        \cup (IF set_humidity.found THEN {FEATURE_TARGET_HUMIDITY} ELSE {})
        \cup (IF fan_type.found THEN {FEATURE_FAN_MODE} ELSE {})
        \cup (IF swing_modes # <<>> THEN {FEATURE_SWING_MODE} ELSE {}),
      hvac_modes |-> hvac.hvac_modes,
      hvac_to_tuya |-> hvac.hvac_to_tuya,
      preset_modes |-> hvac.preset_modes,
      set_humidity |-> set_humidity,
      current_humidity |->
        find_dpcode(dev, <<R(DP_HUMIDITY_CURRENT)>>, FALSE, DPTYPE_INTEGER),
      fan_modes |-> fan_type.range,
      swing_modes |-> swing_modes]

----------------------------------------------------------------------------
(* Values of the device status and of commands: a Python bool, str, int or *)
(* None, tagged so that values of different types can be compared.         *)

NoneV == [t |-> "none", b |-> FALSE, s |-> "", n |-> 0]
BoolV(b) == [t |-> "bool", b |-> b, s |-> "", n |-> 0]
StrV(s) == [t |-> "str", b |-> FALSE, s |-> s, n |-> 0]
IntV(n) == [t |-> "int", b |-> FALSE, s |-> "", n |-> n]

\* bool(v)
Truthy(v) ==
  CASE v.t = "bool" -> v.b
    [] v.t = "str" -> v.s # ""
    [] v.t = "int" -> v.n # 0
    [] OTHER -> FALSE

\* dict.get(key, default)
Get(dict, key, default) == IF key \in DOMAIN dict THEN dict[key] ELSE default

Command(code, value) == [code |-> code, value |-> value]

----------------------------------------------------------------------------
(* The read path, climate.py:455-545 and 574-583.                          *)

\* hvac_mode without the switch test it starts with.
hvac_mode_without_switch_test(table, dev, ent, itype) ==
  LET R(c) == get_right_dpcode(itype, c)
      mode == Get(dev.status, R(DP_MODE), NoneV)
  IN IF R(DP_MODE) \notin DOMAIN dev.function
     THEN IF Truthy(Get(dev.status, R(DP_SWITCH), BoolV(FALSE)))
          THEN switch_only_hvac_mode(ent.category)
          ELSE HVAC_OFF
     ELSE IF mode.t = "str" /\ mode.s \in DOMAIN table
     THEN table[mode.s]
     ELSE IF Truthy(Get(dev.status, DP_SWITCH, BoolV(FALSE)))
     THEN switch_only_hvac_mode(ent.category)
     ELSE HVAC_OFF

\* TuyaClimateEntity.hvac_mode, climate.py:479-501
hvac_mode(table, dev, ent, itype) ==
  LET R(c) == get_right_dpcode(itype, c)
      mode == Get(dev.status, R(DP_MODE), NoneV)
  IN IF ~Truthy(Get(dev.status, R(DP_SWITCH), BoolV(TRUE)))
     THEN HVAC_OFF
     ELSE IF R(DP_MODE) \notin DOMAIN dev.function
     THEN IF Truthy(Get(dev.status, R(DP_SWITCH), BoolV(FALSE)))
          THEN switch_only_hvac_mode(ent.category)
          ELSE HVAC_OFF
     ELSE IF mode.t = "str" /\ mode.s \in DOMAIN table
     THEN table[mode.s]
     ELSE IF Truthy(Get(dev.status, DP_SWITCH, BoolV(FALSE)))
     THEN switch_only_hvac_mode(ent.category)
     ELSE HVAC_OFF

\* TuyaClimateEntity.preset_mode: the class body defines the property twice
\* (climate.py:503-513 and 579-583); the later definition is the one the class
\* has.
preset_mode(dev, itype) ==
  LET eco_mode == Get(dev.status, get_right_dpcode(itype, DP_ECO), NoneV)
  IN IF Truthy(eco_mode) THEN StrV(PRESET_ECO) ELSE StrV(PRESET_NONE)

\* swing_mode testing the two axis switches before shake and swing.
swing_mode_axes_first(dev, itype) ==
  LET R(c) == get_right_dpcode(itype, c)
      horizontal == Get(dev.status, R(DP_SWITCH_HORIZONTAL), NoneV)
      vertical == Get(dev.status, R(DP_SWITCH_VERTICAL), NoneV)
  IN IF Truthy(horizontal) /\ Truthy(vertical) THEN SWING_BOTH
     ELSE IF Truthy(horizontal) THEN SWING_HORIZONTAL
     ELSE IF Truthy(vertical) THEN SWING_VERTICAL
     ELSE IF \E dpcode \in {R(DP_SHAKE), R(DP_SWING)} : Truthy(Get(dev.status, dpcode, NoneV))
     THEN SWING_ON
     ELSE SWING_OFF

\* TuyaClimateEntity.swing_mode, climate.py:520-545
swing_mode(dev, itype) ==
  LET R(c) == get_right_dpcode(itype, c)
      horizontal == Get(dev.status, R(DP_SWITCH_HORIZONTAL), NoneV)
      vertical == Get(dev.status, R(DP_SWITCH_VERTICAL), NoneV)
  IN IF \E dpcode \in {R(DP_SHAKE), R(DP_SWING)} : Truthy(Get(dev.status, dpcode, NoneV))
     THEN SWING_ON
     ELSE IF Truthy(horizontal) /\ Truthy(vertical) THEN SWING_BOTH
     ELSE IF Truthy(horizontal) THEN SWING_HORIZONTAL
     ELSE IF Truthy(vertical) THEN SWING_VERTICAL
     ELSE SWING_OFF

\* TuyaClimateEntity.target_temperature, climate.py:455-465
target_temperature(dev, ent) ==
  IF ~ent.set_temperature.found THEN NoneV
  ELSE LET temperature == Get(dev.status, ent.set_temperature.dpcode, NoneV)
       IN IF temperature.t = "none" THEN NoneV
          ELSE IntV(scale_value(ent.set_temperature, temperature.n))

----------------------------------------------------------------------------
(* The write path, climate.py:337-422 and 547-572.  A setter's outcome is  *)
(* whether it raised and the command batches it handed to _send_command.   *)

Raised == [err |-> TRUE, batches |-> <<>>]
Sent(batch) == [err |-> FALSE, batches |-> <<batch>>]
Nothing == [err |-> FALSE, batches |-> <<>>]

InList(x, list) == \E i \in 1..Len(list) : list[i] = x

\* set_hvac_mode switching the device on whatever the mode.
set_hvac_mode_switch_on(ent, itype, hvac_mode_arg) ==
  Sent(<<Command(get_right_dpcode(itype, DP_SWITCH), BoolV(TRUE))>>
       \o (IF hvac_mode_arg \in DOMAIN ent.hvac_to_tuya
           THEN <<Command(get_right_dpcode(itype, DP_MODE),
                          StrV(ent.hvac_to_tuya[hvac_mode_arg]))>>
           ELSE <<>>))

\* TuyaClimateEntity.set_hvac_mode, climate.py:337-352
set_hvac_mode(ent, itype, hvac_mode_arg) ==
  Sent(<<Command(get_right_dpcode(itype, DP_SWITCH), BoolV(hvac_mode_arg # HVAC_OFF))>>
       \o (IF hvac_mode_arg \in DOMAIN ent.hvac_to_tuya
           THEN <<Command(get_right_dpcode(itype, DP_MODE),
                          StrV(ent.hvac_to_tuya[hvac_mode_arg]))>>
           ELSE <<>>))

\* TuyaClimateEntity.set_fan_mode, climate.py:359-363
set_fan_mode(ent, itype, fan_mode) ==
  Sent(<<Command(get_right_dpcode(itype, DP_FAN_SPEED_ENUM), StrV(fan_mode))>>)

\* TuyaClimateEntity.set_humidity, climate.py:365-379
set_humidity(ent, humidity) ==
  IF ~ent.set_humidity.found THEN Raised
  ELSE Sent(<<Command(ent.set_humidity.dpcode,
                      IntV(scale_value_back(ent.set_humidity, humidity)))>>)

\* set_swing_mode with the two axes exchanged.
set_swing_mode_axes_exchanged(itype, swing_mode_arg) ==
  LET R(c) == get_right_dpcode(itype, c)
  IN Sent(<<Command(R(DP_SHAKE), BoolV(swing_mode_arg = SWING_ON)),
            Command(R(DP_SWING), BoolV(swing_mode_arg = SWING_ON)),
            Command(R(DP_SWITCH_VERTICAL),
                    BoolV(swing_mode_arg \in {SWING_BOTH, SWING_HORIZONTAL})),
            Command(R(DP_SWITCH_HORIZONTAL),
                    BoolV(swing_mode_arg \in {SWING_BOTH, SWING_VERTICAL}))>>)

\* TuyaClimateEntity.set_swing_mode, climate.py:381-404
set_swing_mode(itype, swing_mode_arg) ==
  LET R(c) == get_right_dpcode(itype, c)
  IN Sent(<<Command(R(DP_SHAKE), BoolV(swing_mode_arg = SWING_ON)),
            Command(R(DP_SWING), BoolV(swing_mode_arg = SWING_ON)),
            Command(R(DP_SWITCH_VERTICAL),
                    BoolV(swing_mode_arg \in {SWING_BOTH, SWING_VERTICAL})),
            Command(R(DP_SWITCH_HORIZONTAL),
                    BoolV(swing_mode_arg \in {SWING_BOTH, SWING_HORIZONTAL}))>>)

\* set_temperature rounding the temperature itself, not its raw value.
set_temperature_unscaled(ent, temperature) ==
  IF ~ent.set_temperature.found THEN Raised
  ELSE Sent(<<Command(ent.set_temperature.dpcode,
                      IntV((2 * temperature + ScaledDenom) \div (2 * ScaledDenom)))>>)

\* TuyaClimateEntity.set_temperature, climate.py:406-422.  scale_value_back
\* yields an integer, which round() leaves as it is.
set_temperature(ent, temperature) ==
  IF ~ent.set_temperature.found THEN Raised
  ELSE Sent(<<Command(ent.set_temperature.dpcode,
                      IntV(scale_value_back(ent.set_temperature, temperature)))>>)

\* turn_on trying COOL before HEAT_COOL and HEAT.
turn_on_cool_first(dev, ent, itype) ==
  IF get_right_dpcode(itype, DP_SWITCH) \in DOMAIN dev.function
  THEN Sent(<<Command(get_right_dpcode(itype, DP_SWITCH), BoolV(TRUE))>>)
  ELSE IF InList(HVAC_COOL, ent.hvac_modes) THEN set_hvac_mode(ent, itype, HVAC_COOL)
  ELSE IF InList(HVAC_HEAT_COOL, ent.hvac_modes)
  THEN set_hvac_mode(ent, itype, HVAC_HEAT_COOL)
  ELSE IF InList(HVAC_HEAT, ent.hvac_modes) THEN set_hvac_mode(ent, itype, HVAC_HEAT)
  ELSE Nothing

\* TuyaClimateEntity.turn_on, climate.py:547-560
turn_on(dev, ent, itype) ==
  IF get_right_dpcode(itype, DP_SWITCH) \in DOMAIN dev.function
  THEN Sent(<<Command(get_right_dpcode(itype, DP_SWITCH), BoolV(TRUE))>>)
  ELSE IF InList(HVAC_HEAT_COOL, ent.hvac_modes)
  THEN set_hvac_mode(ent, itype, HVAC_HEAT_COOL)
  ELSE IF InList(HVAC_HEAT, ent.hvac_modes) THEN set_hvac_mode(ent, itype, HVAC_HEAT)
  ELSE IF InList(HVAC_COOL, ent.hvac_modes) THEN set_hvac_mode(ent, itype, HVAC_COOL)
  ELSE Nothing

\* TuyaClimateEntity.turn_off, climate.py:562-572
turn_off(dev, ent, itype) ==
  IF get_right_dpcode(itype, DP_SWITCH) \in DOMAIN dev.function
  THEN Sent(<<Command(get_right_dpcode(itype, DP_SWITCH), BoolV(FALSE))>>)
  ELSE IF InList(HVAC_OFF, ent.hvac_modes) THEN set_hvac_mode(ent, itype, HVAC_OFF)
  ELSE Nothing

----------------------------------------------------------------------------
(* Registration, climate.py:310-334: the only writer of TUYA_HVAC_TO_HA.   *)

async_added_to_hass(table, dev, ent, itype) ==
  IF /\ find_dpcode(dev, <<get_right_dpcode(itype, DP_MODE)>>, TRUE, DPTYPE_ENUM).found
     /\ itype = INSTR_DP
     /\ ent.category = "wk"
  THEN DictSet(DictSet(table, "0", HVAC_AUTO), "1", HVAC_HEAT_COOL)
  ELSE table

----------------------------------------------------------------------------
(* The device: what the SDK and the device do with a submitted batch and   *)
(* with the status snapshot.                                               *)

\* The device applies the commands of a batch in order; a data point it
\* cannot write is a no-op.
RECURSIVE ApplyBatch(_, _, _)
ApplyBatch(dev, batch, i) ==
  IF i > Len(batch) THEN dev
  ELSE ApplyBatch(
         IF batch[i].code \in DOMAIN dev.function
         THEN [dev EXCEPT !.status = DictSet(@, batch[i].code, batch[i].value)]
         ELSE dev,
         batch, i + 1)

SeqToSet(seq) == {seq[i] : i \in 1..Len(seq)}

\* The values the device can report for a declared data point.
ReportedValues(decl) ==
  CASE decl.type = DPTYPE_BOOLEAN -> {BoolV(TRUE), BoolV(FALSE)}
    [] decl.type = DPTYPE_ENUM -> {StrV(m) : m \in SeqToSet(decl.range)}
    [] decl.type = DPTYPE_INTEGER -> {IntV(decl.min)}
    [] OTHER -> {}

Declaration(dev, code) ==
  IF code \in DOMAIN dev.function THEN dev.function[code] ELSE dev.status_range[code]

DeclaredCodes(dev) == DOMAIN dev.function \cup DOMAIN dev.status_range

----------------------------------------------------------------------------
(* Actions.  `last` records the last operation: its name, device and       *)
(* argument, whether it raised, the batches it submitted, what it returned *)
(* and whether the device has applied the batches.                         *)

Devices == DOMAIN device

Record(op, d, arg, outcome, result) ==
  [op |-> op, dev |-> d, arg |-> arg, err |-> outcome.err, batches |-> outcome.batches,
   result |-> result, applied |-> FALSE]

\* async_discover_device constructs the adapter of a discovered device.
Construct(d) ==
  /\ ~entity[d].constructed
  /\ entity' = [entity EXCEPT ![d] = NewEntity(TUYA_HVAC_TO_HA, device[d], instruction_type)]
  /\ last' = Record("__init__", d, NoneV, Nothing, NoneV)
  /\ UNCHANGED <<TUYA_HVAC_TO_HA, instruction_type, device>>

\* The host framework registers a constructed adapter.
AddedToHass(d) ==
  /\ entity[d].constructed
  /\ ~entity[d].added
  /\ TUYA_HVAC_TO_HA' =
       async_added_to_hass(TUYA_HVAC_TO_HA, device[d], entity[d], instruction_type)
  /\ entity' = [entity EXCEPT ![d].added = TRUE]
  /\ last' = Record("async_added_to_hass", d, NoneV, Nothing, NoneV)
  /\ UNCHANGED <<instruction_type, device>>

\* The SDK refreshes one value of the status snapshot.
StatusUpdate(d) ==
  \E code \in DeclaredCodes(device[d]) :
    \E value \in ReportedValues(Declaration(device[d], code)) :
      /\ Get(device[d].status, code, NoneV) # value
      /\ device' = [device EXCEPT ![d].status = DictSet(@, code, value)]
      /\ last' = Record("status_update", d, NoneV, Nothing, NoneV)
      /\ UNCHANGED <<TUYA_HVAC_TO_HA, instruction_type, entity>>

\* The device applies the batch the last operation submitted.
DeviceApply(d) ==
  /\ last.dev = d
  /\ ~last.applied
  /\ last.batches # <<>>
  /\ device' = [device EXCEPT ![d] = ApplyBatch(@, last.batches[1], 1)]
  /\ last' = [last EXCEPT !.applied = TRUE]
  /\ UNCHANGED <<TUYA_HVAC_TO_HA, instruction_type, entity>>

\* A property read or a setter call of the host framework on a registered adapter.
Call(d, op, arg, outcome, result) ==
  /\ entity[d].added
  /\ last' = Record(op, d, arg, outcome, result)
  /\ UNCHANGED <<TUYA_HVAC_TO_HA, instruction_type, device, entity>>

ReadHvacMode(d) ==
  Call(d, "hvac_mode", NoneV, Nothing,
       StrV(hvac_mode(TUYA_HVAC_TO_HA, device[d], entity[d], instruction_type)))

ReadPresetMode(d) ==
  Call(d, "preset_mode", NoneV, Nothing, preset_mode(device[d], instruction_type))

ReadSwingMode(d) ==
  Call(d, "swing_mode", NoneV, Nothing, StrV(swing_mode(device[d], instruction_type)))

ReadTargetTemperature(d) ==
  Call(d, "target_temperature", NoneV, Nothing, target_temperature(device[d], entity[d]))

SetHvacMode(d) ==
  \E m \in HVACModes :
    Call(d, "set_hvac_mode", StrV(m), set_hvac_mode(entity[d], instruction_type, m), NoneV)

TurnOn(d) ==
  Call(d, "turn_on", NoneV, turn_on(device[d], entity[d], instruction_type), NoneV)

TurnOff(d) ==
  Call(d, "turn_off", NoneV, turn_off(device[d], entity[d], instruction_type), NoneV)

SetSwingMode(d) ==
  \E m \in SwingModes :
    Call(d, "set_swing_mode", StrV(m), set_swing_mode(instruction_type, m), NoneV)

\* The temperatures a caller asks for, in degrees times 10.
TemperatureInputs == {223, 227, 300}

\* Degrees times 10 as a scaled value.
Tenths(t) == t * (ScaledDenom \div 10)

SetTemperature(d) ==
  \E t \in TemperatureInputs :
    Call(d, "set_temperature", IntV(Tenths(t)), set_temperature(entity[d], Tenths(t)), NoneV)

HumidityInputs == {42}

SetHumidity(d) ==
  \E h \in HumidityInputs :
    Call(d, "set_humidity", IntV(h * ScaledDenom), set_humidity(entity[d], h * ScaledDenom),
         NoneV)

FanModeInputs == {"high"}

SetFanMode(d) ==
  \E f \in FanModeInputs :
    Call(d, "set_fan_mode", StrV(f), set_fan_mode(entity[d], instruction_type, f), NoneV)

\* The operations on the HVAC mode, the preset and the switch.
Next ==
  \/ \E d \in Devices : Construct(d)
  \/ \E d \in Devices : AddedToHass(d)
  \/ \E d \in Devices : StatusUpdate(d)
  \/ \E d \in Devices : DeviceApply(d)
  \/ \E d \in Devices : ReadHvacMode(d)
  \/ \E d \in Devices : ReadPresetMode(d)
  \/ \E d \in Devices : SetHvacMode(d)
  \/ \E d \in Devices : TurnOn(d)
  \/ \E d \in Devices : TurnOff(d)

\* The operations on the temperature, the humidity and the fan.
NextTemperature ==
  \/ \E d \in Devices : Construct(d)
  \/ \E d \in Devices : AddedToHass(d)
  \/ \E d \in Devices : StatusUpdate(d)
  \/ \E d \in Devices : DeviceApply(d)
  \/ \E d \in Devices : ReadTargetTemperature(d)
  \/ \E d \in Devices : SetTemperature(d)
  \/ \E d \in Devices : SetHumidity(d)
  \/ \E d \in Devices : SetFanMode(d)

\* The operations on the swing mode.
NextSwing ==
  \/ \E d \in Devices : Construct(d)
  \/ \E d \in Devices : AddedToHass(d)
  \/ \E d \in Devices : StatusUpdate(d)
  \/ \E d \in Devices : DeviceApply(d)
  \/ \E d \in Devices : ReadSwingMode(d)
  \/ \E d \in Devices : SetSwingMode(d)

----------------------------------------------------------------------------
(* Initial states: the table as the module defines it, the instruction     *)
(* type of the config entry, the devices the SDK has fetched (declarations *)
(* and a status snapshot) and no adapter yet.                              *)

\* Where a data point is declared: a writable one is in device.function and in
\* device.status_range, a read-only one in device.status_range alone.
Places == {"none", "function", "status_range"}

InFunction(place, code, decl) == IF place = "function" THEN code :> decl ELSE <<>>
InStatusRange(place, code, decl) == IF place = "none" THEN <<>> ELSE code :> decl

\* A status snapshot of the declared data points `codes`: each absent or reported.
RECURSIVE Snapshots(_, _)
Snapshots(dev, codes) ==
  IF codes = {} THEN {<<>>}
  ELSE LET c == CHOOSE x \in codes : TRUE
       IN {s @@ o : s \in Snapshots(dev, codes \ {c}),
                    o \in {<<>>} \cup {c :> v : v \in ReportedValues(Declaration(dev, c))}}

InitCommon ==
  /\ TUYA_HVAC_TO_HA = InitialTable
  /\ instruction_type \in InstructionTypes
  /\ entity = [d \in DOMAIN device |-> NoEntity]
  /\ last = Record("", "", NoneV, Nothing, NoneV)

\* The HVAC data points: switch, mode and eco.
HvacCategories == {"kt", "wk"}
ModeRanges == {<<"auto", "cold">>, <<"cold", "freeze", "hot">>, <<"hot", "eco_x">>, <<"0", "1">>}

HvacDeclarations(itype, category, switch, mode, range, eco) ==
  LET R(c) == get_right_dpcode(itype, c)
  IN [category |-> category,
      function |-> InFunction(switch, R(DP_SWITCH), BooleanDecl)
                   @@ InFunction(mode, R(DP_MODE), EnumDecl(range))
                   @@ InFunction(eco, R(DP_ECO), BooleanDecl),
      status_range |-> InStatusRange(switch, R(DP_SWITCH), BooleanDecl)
                       @@ InStatusRange(mode, R(DP_MODE), EnumDecl(range))
                       @@ InStatusRange(eco, R(DP_ECO), BooleanDecl),
      status |-> <<>>]

InitHvac ==
  /\ \E itype \in InstructionTypes, category \in HvacCategories, switch \in Places,
        mode \in Places, range \in ModeRanges, eco \in {"none", "function"} :
       /\ mode = "none" => range = <<"auto", "cold">>
       /\ instruction_type = itype
       /\ LET decls == HvacDeclarations(itype, category, switch, mode, range, eco)
          IN \E status \in Snapshots(decls, DeclaredCodes(decls)) :
               device = [d \in {"d1"} |-> [decls EXCEPT !.status = status]]
  /\ InitCommon

Spec == InitHvac /\ [][Next]_vars

\* The temperature, humidity and fan data points.  Every declared data point
\* is reported in the snapshot.
TempSetDecls == {IntegerDecl(50, 350, 1, 5), IntegerDecl(16, 30, 0, 1)}

FirstReport(decl) ==
  CASE decl.type = DPTYPE_BOOLEAN -> BoolV(FALSE)
    [] decl.type = DPTYPE_ENUM -> StrV(decl.range[1])
    [] OTHER -> IntV(decl.min)

TemperatureDeclarations(itype, p) ==
  LET R(c) == get_right_dpcode(itype, c)
      function ==
        InFunction(p.temp_set, R(DP_TEMP_SET), p.temp_set_decl)
        @@ InFunction(p.temp_set_f, R(DP_TEMP_SET_F), IntegerDecl(60, 90, 0, 1))
        @@ InFunction(p.humidity_set, R(DP_HUMIDITY_SET), IntegerDecl(30, 70, 0, 5))
        @@ InFunction(p.fan_speed_enum, R(DP_FAN_SPEED_ENUM), EnumDecl(<<"low", "high">>))
        @@ InFunction(p.c_f, R(DP_C_F), EnumDecl(<<"c", "F">>))
      status_range ==
        function
        @@ InStatusRange(p.temp_current, R(DP_TEMP_CURRENT), IntegerDecl(0, 500, 1, 1))
        @@ InStatusRange(p.temp_current_f, R(DP_TEMP_CURRENT_F), IntegerDecl(32, 122, 0, 1))
  IN [category |-> "wk",
      function |-> function,
      status_range |-> status_range,
      status |-> [c \in DOMAIN status_range |-> FirstReport(status_range[c])]]

InitTemperature ==
  /\ \E itype \in InstructionTypes, temp_set \in {"none", "function"},
        temp_set_decl \in TempSetDecls, temp_set_f \in {"none", "function"},
        temp_current \in {"none", "status_range"},
        temp_current_f \in {"none", "status_range"}, c_f \in {"none", "function"},
        humidity_set \in {"none", "function"}, fan_speed_enum \in {"none", "function"} :
       /\ temp_set = "none" => temp_set_decl = IntegerDecl(50, 350, 1, 5)
       /\ instruction_type = itype
       /\ device = [d \in {"d1"} |->
            TemperatureDeclarations(itype,
              [temp_set |-> temp_set, temp_set_decl |-> temp_set_decl,
               temp_set_f |-> temp_set_f, temp_current |-> temp_current,
               temp_current_f |-> temp_current_f, c_f |-> c_f,
               humidity_set |-> humidity_set, fan_speed_enum |-> fan_speed_enum])]
  /\ InitCommon

SpecTemperature == InitTemperature /\ [][NextTemperature]_vars

\* The swing data points.
SwingDeclarations(itype, shake, swing, horizontal, vertical) ==
  LET R(c) == get_right_dpcode(itype, c)
      function ==
        InFunction(shake, R(DP_SHAKE), BooleanDecl)
        @@ InFunction(swing, R(DP_SWING), BooleanDecl)
        @@ InFunction(horizontal, R(DP_SWITCH_HORIZONTAL), BooleanDecl)
        @@ InFunction(vertical, R(DP_SWITCH_VERTICAL), BooleanDecl)
  IN [category |-> "kt", function |-> function, status_range |-> function, status |-> <<>>]

InitSwing ==
  /\ \E itype \in InstructionTypes, shake \in {"none", "function"},
        swing \in {"none", "function"}, horizontal \in {"none", "function"},
        vertical \in {"none", "function"} :
       /\ instruction_type = itype
       /\ LET decls == SwingDeclarations(itype, shake, swing, horizontal, vertical)
          IN \E status \in Snapshots(decls, DeclaredCodes(decls)) :
               device = [d \in {"d1"} |-> [decls EXCEPT !.status = status]]
  /\ InitCommon

SpecSwing == InitSwing /\ [][NextSwing]_vars

\* Two devices of one config entry, each with its own adapter.  The second
\* device either declares what the first declares or is a thermostat whose
\* mode values are the ones async_added_to_hass adds to the table.  Every
\* declared data point is reported in the snapshot.
WithFirstReports(decls) ==
  [decls EXCEPT !.status = [c \in DOMAIN decls.status_range |->
                              FirstReport(decls.status_range[c])]]

InitPair ==
  /\ \E itype \in InstructionTypes, category \in HvacCategories,
        switch \in {"none", "function"}, mode \in Places, range \in ModeRanges,
        same \in BOOLEAN :
       /\ mode = "none" => range = <<"auto", "cold">>
       /\ instruction_type = itype
       /\ LET first == HvacDeclarations(itype, category, switch, mode, range, "none")
              other == IF same THEN first
                       ELSE HvacDeclarations(itype, "wk", "function", "function",
                                             <<"0", "1">>, "none")
          IN device = ("d1" :> WithFirstReports(first)) @@ ("d2" :> WithFirstReports(other))
  /\ InitCommon

\* Construction, registration, status refreshes and reads of the HVAC mode.
NextPair ==
  \/ \E d \in Devices : Construct(d)
  \/ \E d \in Devices : AddedToHass(d)
  \/ \E d \in Devices : StatusUpdate(d)
  \/ \E d \in Devices : ReadHvacMode(d)

SpecPair == InitPair /\ [][NextPair]_vars

----------------------------------------------------------------------------
(* Properties.                                                             *)

\* The identifier the adapters' instruction type gives a data point.
Right(c) == get_right_dpcode(instruction_type, c)

\* The status of device d holds data point `code` with the boolean value b.
Holds(d, code, b) == code \in DOMAIN device[d].status /\ device[d].status[code] = BoolV(b)

\* The mode data point is declared (writable) on device d.
ModeDeclared(d) == Right(DP_MODE) \in DOMAIN device[d].function

\* The current mode value of device d has a translation.
ModeKnown(d) ==
  /\ Right(DP_MODE) \in DOMAIN device[d].status
  /\ device[d].status[Right(DP_MODE)].s \in DOMAIN TUYA_HVAC_TO_HA

\* The last operation was `op` on device d (a read leaves the status as it was).
Did(op, d) == last.op = op /\ last.dev = d

\* C1: a read of hvac_mode returns OFF whenever the status holds the switch
\* data point with the value false, whatever the mode value is (known,
\* unrecognized or absent) and whether or not a mode data point is declared.
C1_SwitchFalseReadsOff ==
  \A d \in Devices :
    Did("hvac_mode", d) /\ Holds(d, Right(DP_SWITCH), FALSE) => last.result = StrV(HVAC_OFF)

\* C1 witness: a read with the switch false while the declared mode has a
\* known value.
C1_Witness ==
  \E d \in Devices :
    /\ Did("hvac_mode", d)
    /\ Holds(d, Right(DP_SWITCH), FALSE)
    /\ ModeDeclared(d)
    /\ ModeKnown(d)
    /\ last.result = StrV(HVAC_OFF)

\* C2: a read of hvac_mode returns the category's fallback mode when the
\* switch is true and either no mode data point is declared or the current
\* mode value is not in the translation table; with no mode data point
\* declared and the switch not true it returns OFF.
C2_FallbackWhenSwitchTrue ==
  \A d \in Devices :
    Did("hvac_mode", d) =>
      /\ Holds(d, Right(DP_SWITCH), TRUE) /\ (~ModeDeclared(d) \/ ~ModeKnown(d))
           => last.result = StrV(switch_only_hvac_mode(device[d].category))
      /\ ~Holds(d, Right(DP_SWITCH), TRUE) /\ ~ModeDeclared(d)
           => last.result = StrV(HVAC_OFF)

\* The eco data point is not declared on device d.
EcoUndeclared(d) ==
  Right(DP_ECO) \notin
    DOMAIN device[d].function \cup DOMAIN device[d].status_range \cup DOMAIN device[d].status

\* C3: on a device without the eco data point a read of preset_mode returns
\* None when no mode data point is declared, no preset when the current mode
\* value is a known HVAC mode, and otherwise the raw mode value itself.
C3_PresetIsUnrecognizedMode ==
  \A d \in Devices :
    Did("preset_mode", d) /\ EcoUndeclared(d) =>
      IF ~ModeDeclared(d) THEN last.result = NoneV
      ELSE IF ModeKnown(d) THEN last.result \in {NoneV, StrV(PRESET_NONE)}
      ELSE last.result = Get(device[d].status, Right(DP_MODE), NoneV)

\* C4: a setter of a property without a resolved binding (set_temperature,
\* set_humidity, set_fan_mode) raises and submits no command batch.
C4_UnboundSetterRaises ==
  \A d \in Devices :
    /\ Did("set_temperature", d) /\ ~entity[d].set_temperature.found
         => last.err /\ last.batches = <<>>
    /\ Did("set_humidity", d) /\ ~entity[d].set_humidity.found
         => last.err /\ last.batches = <<>>
    /\ Did("set_fan_mode", d) /\ FEATURE_FAN_MODE \notin entity[d].supported_features
         => last.err /\ last.batches = <<>>

\* `batch` is what set_hvac_mode(m) is to submit for adapter d: the switch
\* command with the value m # OFF, then the mode command with the recorded
\* vendor value exactly if m has a reverse mapping, and nothing else.
IsHvacModeBatch(batch, d, m) ==
  LET mapped == m \in DOMAIN entity[d].hvac_to_tuya
  IN /\ Len(batch) = (IF mapped THEN 2 ELSE 1)
     /\ batch[1] = Command(Right(DP_SWITCH), BoolV(m # HVAC_OFF))
     /\ mapped => batch[2] = Command(Right(DP_MODE), StrV(entity[d].hvac_to_tuya[m]))

\* C5: set_hvac_mode(m) submits exactly one batch: the switch command with
\* the value m # OFF first, then a mode command with the recorded vendor value
\* if and only if m has a reverse mapping, and no other command.
C5_SetHvacModeBatch ==
  \A d \in Devices :
    Did("set_hvac_mode", d) =>
      /\ ~last.err
      /\ Len(last.batches) = 1
      /\ IsHvacModeBatch(last.batches[1], d, last.arg.s)

\* C5 witness: set_hvac_mode of a mode with a reverse mapping submits the
\* switch command (true) and the mode command.
C5_Witness ==
  \E d \in Devices :
    /\ Did("set_hvac_mode", d)
    /\ last.arg.s \in DOMAIN entity[d].hvac_to_tuya
    /\ Len(last.batches[1]) = 2
    /\ last.batches[1][1].value = BoolV(TRUE)

\* The value a batch carries for data point `code` is v, in exactly one command.
Carries(batch, code, v) ==
  /\ Cardinality({i \in 1..Len(batch) : batch[i].code = code}) = 1
  /\ \A i \in 1..Len(batch) : batch[i].code = code => batch[i].value = v

\* C6: set_swing_mode(m) submits one batch with all four swing data points,
\* whichever of them the device has: shake and swing true exactly when m is
\* ON, vertical exactly when m is BOTH or VERTICAL, horizontal exactly when m
\* is BOTH or HORIZONTAL.
C6_SetSwingModeBatch ==
  \A d \in Devices :
    Did("set_swing_mode", d) =>
      /\ ~last.err
      /\ Len(last.batches) = 1
      /\ LET batch == last.batches[1]
             m == last.arg.s
         IN /\ Len(batch) = 4
            /\ Carries(batch, Right(DP_SHAKE), BoolV(m = SWING_ON))
            /\ Carries(batch, Right(DP_SWING), BoolV(m = SWING_ON))
            /\ Carries(batch, Right(DP_SWITCH_VERTICAL),
                       BoolV(m = SWING_BOTH \/ m = SWING_VERTICAL))
            /\ Carries(batch, Right(DP_SWITCH_HORIZONTAL),
                       BoolV(m = SWING_BOTH \/ m = SWING_HORIZONTAL))

\* C6 witness: set_swing_mode(VERTICAL) on a device that has neither shake nor
\* the horizontal switch.
C6_Witness ==
  \E d \in Devices :
    /\ Did("set_swing_mode", d)
    /\ last.arg = StrV(SWING_VERTICAL)
    /\ Right(DP_SHAKE) \notin DOMAIN device[d].function
    /\ Right(DP_SWITCH_HORIZONTAL) \notin DOMAIN device[d].function
    /\ Len(last.batches[1]) = 4

\* The switch data point of device d is writable.
SwitchWritable(d) == Right(DP_SWITCH) \in DOMAIN device[d].function

Supported(d, m) == m \in SeqToSet(entity[d].hvac_modes)

\* What turn_on / turn_off submitted is what set_hvac_mode(m) submits.
SetsHvacMode(d, m) ==
  Len(last.batches) = 1 /\ IsHvacModeBatch(last.batches[1], d, m)

\* C7: turn_on and turn_off never fail.  With a writable switch they submit
\* exactly one switch command (true / false); otherwise turn_on sets the first
\* of HEAT_COOL, HEAT, COOL among the supported HVAC modes (nothing if none
\* is) and turn_off sets OFF if OFF is supported (nothing otherwise).
C7_TurnOnOffBestEffort ==
  \A d \in Devices :
    /\ Did("turn_on", d) =>
         /\ ~last.err
         /\ SwitchWritable(d) =>
              last.batches = << <<Command(Right(DP_SWITCH), BoolV(TRUE))>> >>
         /\ ~SwitchWritable(d) =>
              /\ Supported(d, HVAC_HEAT_COOL) => SetsHvacMode(d, HVAC_HEAT_COOL)
              /\ ~Supported(d, HVAC_HEAT_COOL) /\ Supported(d, HVAC_HEAT)
                   => SetsHvacMode(d, HVAC_HEAT)
              /\ ~Supported(d, HVAC_HEAT_COOL) /\ ~Supported(d, HVAC_HEAT)
                   /\ Supported(d, HVAC_COOL) => SetsHvacMode(d, HVAC_COOL)
              /\ ~Supported(d, HVAC_HEAT_COOL) /\ ~Supported(d, HVAC_HEAT)
                   /\ ~Supported(d, HVAC_COOL) => last.batches = <<>>
    /\ Did("turn_off", d) =>
         /\ ~last.err
         /\ SwitchWritable(d) =>
              last.batches = << <<Command(Right(DP_SWITCH), BoolV(FALSE))>> >>
         /\ ~SwitchWritable(d) /\ Supported(d, HVAC_OFF) => SetsHvacMode(d, HVAC_OFF)
         /\ ~SwitchWritable(d) /\ ~Supported(d, HVAC_OFF) => last.batches = <<>>

\* C7 witness: turn_on without a writable switch on an adapter that supports
\* HEAT and COOL but not HEAT_COOL sets HEAT.
C7_Witness ==
  \E d \in Devices :
    /\ Did("turn_on", d)
    /\ ~SwitchWritable(d)
    /\ Supported(d, HVAC_HEAT) /\ Supported(d, HVAC_COOL) /\ ~Supported(d, HVAC_HEAT_COOL)
    /\ SetsHvacMode(d, HVAC_HEAT)

\* C8: a read of swing_mode returns ON whenever shake or swing is true,
\* whatever the two axis switches are; otherwise BOTH when horizontal and
\* vertical are true, HORIZONTAL or VERTICAL when only that one is, and OFF
\* when all four are false or absent.
C8_SwingModeRead ==
  \A d \in Devices :
    Did("swing_mode", d) =>
      LET shake == Holds(d, Right(DP_SHAKE), TRUE)
          swing == Holds(d, Right(DP_SWING), TRUE)
          horizontal == Holds(d, Right(DP_SWITCH_HORIZONTAL), TRUE)
          vertical == Holds(d, Right(DP_SWITCH_VERTICAL), TRUE)
      IN /\ shake \/ swing => last.result = StrV(SWING_ON)
         /\ ~shake /\ ~swing /\ horizontal /\ vertical => last.result = StrV(SWING_BOTH)
         /\ ~shake /\ ~swing /\ horizontal /\ ~vertical
              => last.result = StrV(SWING_HORIZONTAL)
         /\ ~shake /\ ~swing /\ ~horizontal /\ vertical
              => last.result = StrV(SWING_VERTICAL)
         /\ ~shake /\ ~swing /\ ~horizontal /\ ~vertical
              => last.result = StrV(SWING_OFF)

\* C8 witness: a read with shake and both axis switches true returns ON.
C8_Witness ==
  \E d \in Devices :
    /\ Did("swing_mode", d)
    /\ Holds(d, Right(DP_SHAKE), TRUE)
    /\ Holds(d, Right(DP_SWITCH_HORIZONTAL), TRUE)
    /\ Holds(d, Right(DP_SWITCH_VERTICAL), TRUE)
    /\ last.result = StrV(SWING_ON)

Abs(x) == IF x < 0 THEN -x ELSE x

\* The type of the end-to-end example: min 50, max 350, scale 1, step 5.
IsExampleType(t) == t.min = 50 /\ t.max = 350 /\ t.scale = 1 /\ t.step = 5

IntegerDeclared(d, code) ==
  \/ code \in DOMAIN device[d].function /\ device[d].function[code].type = DPTYPE_INTEGER
  \/ /\ code \in DOMAIN device[d].status_range
     /\ device[d].status_range[code].type = DPTYPE_INTEGER

\* C10: at construction the current-temperature and the target-temperature
\* binding each get a data point whenever the Celsius or the Fahrenheit
\* integer data point of that property exists, the preferred unit's if it is
\* available and otherwise the one that is; a device with only the Fahrenheit
\* data points is bound to them.
C10_TemperatureBoundWhenAvailable ==
  \A d \in Devices :
    entity[d].constructed =>
      /\ IntegerDeclared(d, Right(DP_TEMP_CURRENT)) \/ IntegerDeclared(d, Right(DP_TEMP_CURRENT_F))
           => entity[d].current_temperature.found
      /\ IntegerDeclared(d, Right(DP_TEMP_SET)) \/ IntegerDeclared(d, Right(DP_TEMP_SET_F))
           => entity[d].set_temperature.found

\* Device d declares the mode data point as an enum.
ModeEnumDeclared(d) ==
  \/ /\ Right(DP_MODE) \in DOMAIN device[d].function
     /\ device[d].function[Right(DP_MODE)].type = DPTYPE_ENUM
  \/ /\ Right(DP_MODE) \in DOMAIN device[d].status_range
     /\ device[d].status_range[Right(DP_MODE)].type = DPTYPE_ENUM

\* The permitted values of the mode enum of device d.
ModeRange(d) == SeqToSet(Declaration(device[d], Right(DP_MODE)).range)

\* Device d has a switch data point (declared or reported).
SwitchExists(d) ==
  Right(DP_SWITCH) \in
    DOMAIN device[d].function \cup DOMAIN device[d].status_range \cup DOMAIN device[d].status

\* C11: when an adapter is constructed for a device with a mode enum, every
\* permitted value is handled exactly one way: a value with a translation adds
\* its host mode to the supported modes and the host mode gets a reverse
\* mapping to a vendor value that translates to it; an unrecognized value goes
\* to the preset list and the category's fallback mode is added to the
\* supported modes.  With no mode enum but a switch the supported modes are
\* exactly OFF and the fallback mode.
C11_EnumValuesBound ==
  \A d \in Devices :
    Did("__init__", d) =>
      LET e == entity[d]
          fallback == switch_only_hvac_mode(device[d].category)
      IN /\ ModeEnumDeclared(d) =>
              \A v \in ModeRange(d) :
                IF v \in DOMAIN TUYA_HVAC_TO_HA
                THEN LET m == TUYA_HVAC_TO_HA[v]
                     IN /\ Supported(d, m)
                        /\ m \in DOMAIN e.hvac_to_tuya
                        /\ e.hvac_to_tuya[m] \in DOMAIN TUYA_HVAC_TO_HA
                        /\ TUYA_HVAC_TO_HA[e.hvac_to_tuya[m]] = m
                        /\ v \notin SeqToSet(e.preset_modes)
                ELSE /\ v \in SeqToSet(e.preset_modes)
                     /\ Supported(d, fallback)
                     /\ \A m \in DOMAIN e.hvac_to_tuya : e.hvac_to_tuya[m] # v
         /\ ~ModeEnumDeclared(d) /\ SwitchExists(d) =>
              /\ SeqToSet(e.hvac_modes) = {HVAC_OFF, fallback}
              /\ Len(e.hvac_modes) = 2

\* C11 witness: an adapter constructed after the table was extended, for a
\* mode enum with the added values, supports AUTO.
C11_Witness ==
  \E d \in Devices :
    /\ Did("__init__", d)
    /\ ModeEnumDeclared(d)
    /\ "0" \in ModeRange(d)
    /\ "0" \in DOMAIN TUYA_HVAC_TO_HA
    /\ Supported(d, HVAC_AUTO)

\* The bindings of the HVAC mode an adapter fixes at construction.
HvacBindings(e) ==
  [hvac_modes |-> e.hvac_modes, hvac_to_tuya |-> e.hvac_to_tuya,
   preset_modes |-> e.preset_modes]

\* C12: binding resolution is deterministic in the device's own snapshot.  Two
\* adapters constructed for devices with the same category, instruction type,
\* capability set and status have the same bindings, whatever was constructed
\* or registered before them; and the HVAC mode an adapter reads for a given
\* status is the same before and after another adapter is registered.
C12_BindingsDeterministic ==
  [][/\ \A d \in Devices, o \in Devices :
          /\ entity'[d].constructed
          /\ entity'[o].constructed
          /\ device'[d] = device'[o]
          => HvacBindings(entity'[d]) = HvacBindings(entity'[o])
     /\ \A d \in Devices, o \in Devices :
          /\ d # o
          /\ entity[d].constructed
          /\ ~entity[o].added
          /\ entity'[o].added
          => hvac_mode(TUYA_HVAC_TO_HA', device'[d], entity'[d], instruction_type')
               = hvac_mode(TUYA_HVAC_TO_HA, device[d], entity[d], instruction_type)
    ]_vars

\* C13: in every reachable state the value a read of hvac_mode returns is a
\* member of the supported HVAC modes the adapter fixed at construction.
C13_HvacModeIsSupported ==
  \A d \in Devices :
    Did("hvac_mode", d) => last.result.s \in SeqToSet(entity[d].hvac_modes)

\* The device has applied every command of the last submitted batch: its
\* status holds the value of each of them.
AppliedAll(d) ==
  /\ last.dev = d
  /\ last.applied
  /\ \A i \in 1..Len(last.batches[1]) :
       LET c == last.batches[1][i]
       IN c.code \in DOMAIN device[d].status /\ device[d].status[c.code] = c.value

\* C14: for every mode m of an adapter's supported HVAC modes, after
\* set_hvac_mode(m) and the device applying every emitted command to its
\* status, a read of hvac_mode returns m.
C14_SetThenReadRoundTrip ==
  \A d \in Devices :
    /\ last.op = "set_hvac_mode"
    /\ ~last.err
    /\ Supported(d, last.arg.s)
    /\ AppliedAll(d)
    => hvac_mode(TUYA_HVAC_TO_HA, device[d], entity[d], instruction_type) = last.arg.s

====
